---------------------------- MODULE Spec2Model ----------------------------
(***************************************************************************)
(* A model of the othello player of cryptopi/qwerty_othello: the Board     *)
(* (two 64-bit sets, legality, move application, counting, scoring) and    *)
(* the Player that searches it (negamax with alpha-beta, and the older     *)
(* plain minimax).                                                         *)
(***************************************************************************)
EXTENDS Integers, Sequences, FiniteSets, TLC

\* common.hpp:7
BOARD_SIZE == 8

\* enum Side, common.hpp:9-11
WHITE == "WHITE"
BLACK == "BLACK"
Sides == {WHITE, BLACK}

\* the ternary (side == BLACK) ? WHITE : BLACK used throughout
Other(side) == IF side = BLACK THEN WHITE ELSE BLACK

\* a Move* is nullptr or points to a Move(x, y)
NoMove == <<>>
Move(x, y) == <<x, y>>
getX(m) == m[1]
getY(m) == m[2]

Coords == 0 .. (BOARD_SIZE - 1)
Squares == 0 .. 63
AllMoves == {Move(x, y) : x \in Coords, y \in Coords}

\* the constructor with the colours of the four squares exchanged
NewBoardSwapped ==
    [taken |-> {3 + 8 * 3, 3 + 8 * 4, 4 + 8 * 3, 4 + 8 * 4},
     black |-> {3 + 8 * 3, 4 + 8 * 4}]

\* Board::Board(): the bits set by the constructor
NewBoard ==
    [taken |-> {3 + 8 * 3, 3 + 8 * 4, 4 + 8 * 3, 4 + 8 * 4},
     black |-> {4 + 8 * 3, 3 + 8 * 4}]

occupied(b, x, y) == (x + 8 * y) \in b.taken

get(b, side, x, y) ==
    occupied(b, x, y) /\ (((x + 8 * y) \in b.black) = (side = BLACK))

\* set with "black.set(i)": the colour of the side lost
setAlwaysBlack(b, side, x, y) ==
    [taken |-> b.taken \cup {x + 8 * y}, black |-> b.black \cup {x + 8 * y}]

\* taken.set(i); black.set(i, side == BLACK)
set(b, side, x, y) ==
    [taken |-> b.taken \cup {x + 8 * y},
     black |-> IF side = BLACK THEN b.black \cup {x + 8 * y}
                               ELSE b.black \ {x + 8 * y}]

onBoard(x, y) == 0 <= x /\ x < 8 /\ 0 <= y /\ y < 8

\* the loop "do { x += dx; y += dy; } while (onBoard(x, y) && get(other, x, y))"
\* entered at (x, y): the square it stops on, as <<x, y>>
RECURSIVE SkipRun(_, _, _, _, _, _)
SkipRun(b, other, x, y, dx, dy) ==
    LET nx == x + dx
        ny == y + dy
    IN  IF onBoard(nx, ny) /\ get(b, other, nx, ny)
        THEN SkipRun(b, other, nx, ny, dx, dy)
        ELSE <<nx, ny>>

\* the directions in the order of the loops "for dx, for dy", (0, 0) skipped
Directions ==
    << <<-1, -1>>, <<-1, 0>>, <<-1, 1>>, <<0, -1>>,
       <<0, 1>>, <<1, -1>>, <<1, 0>>, <<1, 1>> >>

\* CheckDir without the test of the piece after the run
CheckDirAnyEnd(b, X, Y, side, dx, dy) ==
    LET other == Other(side)
        x == X + dx
        y == Y + dy
    IN  IF onBoard(x, y) /\ get(b, other, x, y)
        THEN LET e == SkipRun(b, other, x, y, dx, dy)
             IN  onBoard(e[1], e[2])
        ELSE FALSE

\* body of the direction loop of Board::checkMove: a capture in (dx, dy)?
CheckDir(b, X, Y, side, dx, dy) ==
    LET other == Other(side)
        x == X + dx
        y == Y + dy
    IN  IF onBoard(x, y) /\ get(b, other, x, y)
        THEN LET e == SkipRun(b, other, x, y, dx, dy)
             IN  onBoard(e[1], e[2]) /\ get(b, side, e[1], e[2])
        ELSE FALSE

\* Board::checkMove for a placement (m != nullptr)
CheckPlacement(b, m, side) ==
    LET X == getX(m)
        Y == getY(m)
    IN  IF occupied(b, X, Y) THEN FALSE
        ELSE \E d \in 1 .. 8 :
                CheckDir(b, X, Y, side, Directions[d][1], Directions[d][2])

\* hasMoves answering with the first square it tests
HasMovesFirstOnly(b, side, k) == CheckPlacement(b, Move(k \div 8, k % 8), side)

\* Board::hasMoves: the loops "for i, for j" from scan position k = 8 * i + j on,
\* returning at the first legal placement
RECURSIVE HasMovesFrom(_, _, _)
HasMovesFrom(b, side, k) ==
    IF k >= BOARD_SIZE * BOARD_SIZE THEN FALSE
    ELSE IF CheckPlacement(b, Move(k \div 8, k % 8), side) THEN TRUE
    ELSE HasMovesFrom(b, side, k + 1)

hasMoves(b, side) == HasMovesFrom(b, side, 0)

\* Board::checkMove
checkMove(b, m, side) ==
    IF m = NoMove THEN ~hasMoves(b, side)
    ELSE CheckPlacement(b, m, side)

\* Board::isDone
isDone(b) == ~(hasMoves(b, BLACK) \/ hasMoves(b, WHITE))

\* the inner loop of Board::doMove, "while (onBoard && get(other)) { set(side);
\* x += dx; y += dy; }" entered at (x, y)
RECURSIVE FlipRun(_, _, _, _, _, _)
FlipRun(b, side, x, y, dx, dy) ==
    IF onBoard(x, y) /\ get(b, Other(side), x, y)
    THEN FlipRun(set(b, side, x, y), side, x + dx, y + dy, dx, dy)
    ELSE b

\* body of the direction loop of Board::doMove
FlipDir(b, X, Y, side, dx, dy) ==
    LET e == SkipRun(b, Other(side), X, Y, dx, dy)
    IN  IF onBoard(e[1], e[2]) /\ get(b, side, e[1], e[2])
        THEN FlipRun(b, side, X + dx, Y + dy, dx, dy)
        ELSE b

\* the direction loop leaving after the first direction that flipped
RECURSIVE FlipFromFirstOnly(_, _, _, _, _)
FlipFromFirstOnly(b, X, Y, side, d) ==
    IF d > 8 THEN b
    ELSE LET nb == FlipDir(b, X, Y, side, Directions[d][1], Directions[d][2])
         IN  IF nb # b THEN nb ELSE FlipFromFirstOnly(nb, X, Y, side, d + 1)

\* the direction loop of Board::doMove from direction d on
RECURSIVE FlipFrom(_, _, _, _, _)
FlipFrom(b, X, Y, side, d) ==
    IF d > 8 THEN b
    ELSE FlipFrom(FlipDir(b, X, Y, side, Directions[d][1], Directions[d][2]),
                  X, Y, side, d + 1)

\* doMove without "if (!checkMove(m, side)) return"
doMoveUnchecked(b, m, side) ==
    IF m = NoMove THEN b
    ELSE set(FlipFrom(b, getX(m), getY(m), side, 1), side, getX(m), getY(m))

\* doMove without the last "set(side, X, Y)"
doMoveWithoutPlacing(b, m, side) ==
    IF m = NoMove THEN b
    ELSE IF ~checkMove(b, m, side) THEN b
    ELSE FlipFrom(b, getX(m), getY(m), side, 1)

\* Board::doMove
doMove(b, m, side) ==
    IF m = NoMove THEN b
    ELSE IF ~checkMove(b, m, side) THEN b
    ELSE set(FlipFrom(b, getX(m), getY(m), side, 1), side, getX(m), getY(m))

\* Board::countBlack, Board::countWhite, Board::count
countBlack(b) == Cardinality(b.black)
countWhite(b) == Cardinality(b.taken) - Cardinality(b.black)
count(b, side) == IF side = BLACK THEN countBlack(b) ELSE countWhite(b)


\* enum Position, common.hpp:13-15
CORNER == "CORNER"
EDGE == "EDGE"
NEXT_TO_CORNER == "NEXT_TO_CORNER"
DIAGONAL_TO_CORNER == "DIAGONAL_TO_CORNER"
\* OTHER is a reserved word of TLA+
POS_OTHER == "OTHER"

\* getSquarePosition with "if (isEdge)" tested first
getSquarePositionEdgeFirst(x, y) ==
    IF (x = 0) \/ (x = BOARD_SIZE - 1) \/ (y = 0) \/ (y = BOARD_SIZE - 1) THEN EDGE
    ELSE IF x \in {1, BOARD_SIZE - 2} /\ y \in {1, BOARD_SIZE - 2}
    THEN DIAGONAL_TO_CORNER
    ELSE POS_OTHER

\* Board::getSquarePosition
getSquarePosition(x, y) ==
    LET isEdge == (x = 0) \/ (x = BOARD_SIZE - 1) \/ (y = 0) \/ (y = BOARD_SIZE - 1)
        isCorner ==
            \/ (x = 0 /\ y = 0)
            \/ (x = 0 /\ y = BOARD_SIZE - 1)
            \/ (x = BOARD_SIZE - 1 /\ y = 0)
            \/ (x = BOARD_SIZE - 1 /\ y = BOARD_SIZE - 1)
        isDiagonalToCorner ==
            \/ (x = 1 /\ y = 1)
            \/ (x = 1 /\ y = BOARD_SIZE - 2)
            \/ (x = BOARD_SIZE - 2 /\ y = 1)
            \/ (x = BOARD_SIZE - 2 /\ y = BOARD_SIZE - 2)
        isNextToCorner ==
            \/ (x = 1 /\ y = 0)
            \/ (x = 0 /\ y = 1)
            \/ (x = 0 /\ y = BOARD_SIZE - 2)
            \/ (x = 1 /\ y = BOARD_SIZE - 1)
            \/ (x = BOARD_SIZE - 2 /\ y = BOARD_SIZE - 1)
            \/ (x = BOARD_SIZE - 1 /\ y = BOARD_SIZE - 2)
            \/ (x = BOARD_SIZE - 2 /\ y = 0)
            \/ (x = BOARD_SIZE - 1 /\ y = 1)
    IN  IF isCorner THEN CORNER
        ELSE IF isDiagonalToCorner THEN DIAGONAL_TO_CORNER
        ELSE IF isNextToCorner THEN NEXT_TO_CORNER
        ELSE IF isEdge THEN EDGE
        ELSE POS_OTHER

\* the weights declared in Board::getScore
CORNER_WEIGHT == 3
EDGE_WEIGHT == 2
NEXT_TO_CORNER_WEIGHT == -2
DIAGONAL_TO_CORNER_WEIGHT == -3
OTHER_WEIGHT == 1

\* the loop body without "if (!this->get(side, i, j)) additionalScore = -additionalScore"
SquareScoreUnsigned(b, side, i, j) ==
    IF occupied(b, i, j)
    THEN LET pos == getSquarePosition(i, j)
         IN  IF pos = CORNER THEN CORNER_WEIGHT
             ELSE IF pos = DIAGONAL_TO_CORNER THEN DIAGONAL_TO_CORNER_WEIGHT
             ELSE IF pos = NEXT_TO_CORNER THEN NEXT_TO_CORNER_WEIGHT
             ELSE IF pos = EDGE THEN EDGE_WEIGHT
             ELSE OTHER_WEIGHT
    ELSE 0

\* body of the loops of Board::getScore for the square (i, j)
SquareScore(b, side, i, j) ==
    IF occupied(b, i, j)
    THEN LET pos == getSquarePosition(i, j)
             additionalScore ==
                 IF pos = CORNER THEN CORNER_WEIGHT
                 ELSE IF pos = DIAGONAL_TO_CORNER THEN DIAGONAL_TO_CORNER_WEIGHT
                 ELSE IF pos = NEXT_TO_CORNER THEN NEXT_TO_CORNER_WEIGHT
                 ELSE IF pos = EDGE THEN EDGE_WEIGHT
                 ELSE IF pos = POS_OTHER THEN OTHER_WEIGHT
                 ELSE 0
         IN  IF ~get(b, side, i, j) THEN -additionalScore ELSE additionalScore
    ELSE 0

\* the loops "for i, for j" of Board::getScore from scan position k on
RECURSIVE PositionalFrom(_, _, _)
PositionalFrom(b, side, k) ==
    IF k >= BOARD_SIZE * BOARD_SIZE THEN 0
    ELSE SquareScore(b, side, k \div 8, k % 8) + PositionalFrom(b, side, k + 1)

\* getScore taking black minus white for either side in the simple mode
getScoreForBlack(b, side, testingMinimax) ==
    IF testingMinimax THEN countBlack(b) - countWhite(b)
    ELSE PositionalFrom(b, side, 0)

\* Board::getScore
getScore(b, side, testingMinimax) ==
    IF testingMinimax
    THEN IF side = BLACK THEN countBlack(b) - countWhite(b)
                         ELSE countWhite(b) - countBlack(b)
    ELSE PositionalFrom(b, side, 0)


\* <limits.h>
INT_MAX == 2147483647
INT_MIN == -2147483647 - 1

\* unary minus on a 32-bit int: -INT_MIN overflows (signed overflow, whatever the
\* build makes of it); Overflows marks it and the search result carries the mark
Overflows(v) == v = INT_MIN
Neg(v) == IF v = INT_MIN THEN INT_MIN ELSE -v

\* copy returning this instead of a new Board
copyShallow(heap, id) == [heap |-> heap, ret |-> id]

\* The free store: heap[id] is the Board a pointer id points to.
\* Board::copy: "new Board()" and the assignment of both bit-sets
copy(heap, id) ==
    [heap |-> Append(heap, [NewBoard EXCEPT !.black = heap[id].black,
                                            !.taken = heap[id].taken]),
     ret  |-> Len(heap) + 1]

\* board->doMove(m, side) through a pointer
HeapDoMove(heap, id, m, side) == [heap EXCEPT ![id] = doMove(heap[id], m, side)]

\* what a search call leaves of the free store: the boards it allocated are
\* unreachable once it returned (deleted, or leaked on the cutoff return)
Release(heap, n) == SubSeq(heap, 1, n)

\* the loops "for i, for j" of the searches skip every (i, j) that
\* this->board->checkMove rejects: the first scan position 8 * i + j at or after k
\* that it accepts, or 64 when the loops run out
\* the scan testing the squares for the side that is not to move
RECURSIVE ScanNextOtherSide(_, _, _)
ScanNextOtherSide(b, playingSide, k) ==
    IF k >= BOARD_SIZE * BOARD_SIZE THEN BOARD_SIZE * BOARD_SIZE
    ELSE IF checkMove(b, Move(k \div BOARD_SIZE, k % BOARD_SIZE), Other(playingSide))
         THEN k
         ELSE ScanNextOtherSide(b, playingSide, k + 1)

RECURSIVE ScanNext(_, _, _)
ScanNext(b, playingSide, k) ==
    IF k >= BOARD_SIZE * BOARD_SIZE THEN BOARD_SIZE * BOARD_SIZE
    ELSE IF checkMove(b, Move(k \div 8, k % 8), playingSide) THEN k
    ELSE ScanNext(b, playingSide, k + 1)

\* "if (boardScore >= alpha)": a placement of equal score replaces the move
ImprovesOrTies(boardScore, alpha) == boardScore >= alpha

\* a child called two levels down
DepthBelowSkipping(depth) == IF depth > 1 THEN depth - 2 ELSE 0

\* the depth passed to a child: "depth - 1" (part_000:88, player.cpp:78, 108)
DepthBelow(depth) == depth - 1

\* "if (boardScore > alpha)" (part_000:90)
Improves(boardScore, alpha) == boardScore > alpha

\* the cutoff left out
CutsOffNever(boardScore, beta) == FALSE

\* "if (boardScore > -beta)"
CutsOffNegated(boardScore, beta) == boardScore > Neg(beta)

\* "if (boardScore > beta)" (part_000:94)
CutsOff(boardScore, beta) == boardScore > beta

\* the cutoff returning the score that went above beta
CutoffScoreOfChild(boardScore, beta) == boardScore

\* what the cutoff returns: "return std::pair<int, Move*>(beta, ...)" (part_000:95)
CutoffScore(boardScore, beta) == beta

\* Player::negamax (part_000:68-104).  this = [board, side, testingMinimax];
\* the result is the returned pair, the free store, whether a negation overflowed,
\* the number of negamax calls made, and the calls themselves (nodes, the call
\* first and then those it made, in the order they were made).
RECURSIVE negamax(_, _, _, _, _, _, _)
RECURSIVE NegamaxLoop(_, _, _, _, _, _, _, _, _, _, _, _)

\* what a call starts with: the board passed to it, its window, and nothing
\* examined yet
StartOfCall(b, alpha, beta) ==
    [board |-> b, alpha |-> alpha, beta |-> beta,
     seen |-> <<>>, kids |-> <<>>, vals |-> <<>>, sizes |-> <<>>, sub |-> <<>>]

\* one call of a search as it went: the board and the window it was given, the
\* placements it examined in order (seen), the boards it passed down (kids), the
\* score it had of each (vals), the number of calls each child call stood for
\* (sizes), what it returned and whether by the cutoff, and the board passed to
\* it as it is when the call returns (after)
CallOf(tr, after, playingSide, depth, score, move, cut) ==
    [board |-> tr.board, after |-> after, side |-> playingSide, depth |-> depth,
     alpha |-> tr.alpha, beta |-> tr.beta,
     seen |-> tr.seen, kids |-> tr.kids, vals |-> tr.vals, sizes |-> tr.sizes,
     score |-> score, move |-> move, cut |-> cut]

\* the call after it examined move m through the board kid with score v
Examined(tr, m, kid, v, nodes) ==
    [tr EXCEPT !.seen = Append(@, m), !.kids = Append(@, kid),
               !.vals = Append(@, v), !.sizes = Append(@, Len(nodes)),
               !.sub = @ \o nodes]

\* negamax evaluating its base case for the side to move
negamaxForMover(heap, this, board, playingSide, depth, alpha, beta) ==
    IF depth = 0 \/ ~hasMoves(heap[board], playingSide)
    THEN [heap |-> heap, score |-> getScore(heap[board], playingSide, TRUE),
          move |-> NoMove, ovf |-> FALSE, calls |-> 1,
          nodes |-> <<CallOf(StartOfCall(heap[board], alpha, beta), heap[board],
                             playingSide,
                             depth, getScore(heap[board], playingSide, TRUE),
                             NoMove, FALSE)>>]
    ELSE NegamaxLoop(heap, this, board, playingSide, depth, alpha, beta,
                     0, NoMove, FALSE, 1, StartOfCall(heap[board], alpha, beta))

negamax(heap, this, board, playingSide, depth, alpha, beta) ==
    IF depth = 0 \/ ~hasMoves(heap[board], playingSide)
    THEN [heap |-> heap, score |-> getScore(heap[board], this.side, TRUE),
          move |-> NoMove, ovf |-> FALSE, calls |-> 1,
          nodes |-> <<CallOf(StartOfCall(heap[board], alpha, beta), heap[board],
                             playingSide,
                             depth, getScore(heap[board], this.side, TRUE),
                             NoMove, FALSE)>>]
    ELSE NegamaxLoop(heap, this, board, playingSide, depth, alpha, beta,
                     0, NoMove, FALSE, 1, StartOfCall(heap[board], alpha, beta))

\* the loops "for i, for j" of Player::negamax from scan position k = 8 * i + j on
NegamaxLoop(heap, this, board, playingSide, depth, alpha, beta, k0, moveMade, ovf, calls, tr) ==
    LET k == ScanNext(heap[this.board], playingSide, k0)
    IN  IF k >= BOARD_SIZE * BOARD_SIZE
        THEN [heap |-> heap, score |-> alpha, move |-> moveMade, ovf |-> ovf,
              calls |-> calls,
              nodes |-> <<CallOf(tr, heap[board], playingSide, depth, alpha, moveMade,
                                 FALSE)>>
                           \o tr.sub]
        ELSE LET i == k \div 8
                 j == k % 8
                 testMove == Move(i, j)
                 c == copy(heap, this.board)
                 h == HeapDoMove(c.heap, c.ret, testMove, playingSide)
                 childResults == negamax(h, this, c.ret, Other(playingSide),
                                         DepthBelow(depth), Neg(beta), Neg(alpha))
                 boardScore == Neg(childResults.score)
                 o == \/ ovf \/ childResults.ovf
                      \/ Overflows(beta) \/ Overflows(alpha)
                      \/ Overflows(childResults.score)
                 n == calls + childResults.calls
                 left == Release(childResults.heap, Len(heap))
                 isBetter == Improves(boardScore, alpha)
                 t == Examined(tr, testMove, h[c.ret], boardScore,
                               childResults.nodes)
             IN  IF CutsOff(boardScore, beta)
                 THEN [heap |-> left, score |-> CutoffScore(boardScore, beta),
                       move |-> Move(i, j), ovf |-> o, calls |-> n,
                       nodes |-> <<CallOf(t, left[board], playingSide, depth,
                                          CutoffScore(boardScore, beta),
                                          Move(i, j), TRUE)>> \o t.sub]
                 ELSE NegamaxLoop(left, this, board, playingSide, depth,
                                  IF isBetter THEN boardScore ELSE alpha, beta,
                                  k + 1,
                                  IF isBetter THEN Move(i, j) ELSE moveMade,
                                  o, n, t)

\* Player::minimax (player.cpp:53-129); its calls carry the window of an
\* unbounded search
RECURSIVE minimax(_, _, _, _, _)
RECURSIVE MinimaxLoop(_, _, _, _, _, _, _, _, _, _)
minimax(heap, this, board, depth, maximizingPlayer) ==
    LET playingSide == IF maximizingPlayer THEN this.side ELSE Other(this.side)
        start == StartOfCall(heap[board], INT_MIN + 1, INT_MAX)
        score == getScore(heap[board], this.side, this.testingMinimax)
    IN  IF depth = 0 \/ ~hasMoves(heap[board], playingSide)
        THEN [heap |-> heap, score |-> score,
              move |-> NoMove, ovf |-> FALSE, calls |-> 1,
              nodes |-> <<CallOf(start, heap[board], playingSide, depth, score,
                                 NoMove, FALSE)>>]
        ELSE MinimaxLoop(heap, this, board, depth, maximizingPlayer, 0, NoMove, 0, 1,
                         start)

\* the loops "for i, for j" of either branch of Player::minimax from scan
\* position k on; value is bestValue (maximizing) or lowestValue
MinimaxLoop(heap, this, board, depth, maximizingPlayer, k0, moveMade, value, calls, tr) ==
    LET playingSide == IF maximizingPlayer THEN this.side ELSE Other(this.side)
        k == ScanNext(heap[this.board], playingSide, k0)
    IN  IF k >= BOARD_SIZE * BOARD_SIZE
        THEN [heap |-> heap, score |-> value, move |-> moveMade, ovf |-> FALSE,
              calls |-> calls,
              nodes |-> <<CallOf(tr, heap[board], playingSide, depth, value, moveMade,
                                 FALSE)>>
                           \o tr.sub]
        ELSE LET i == k \div 8
                 j == k % 8
                 testMove == Move(i, j)
                 c == copy(heap, this.board)
                 h == HeapDoMove(c.heap, c.ret, testMove, playingSide)
                 childResults == minimax(h, this, c.ret, DepthBelow(depth),
                                         ~maximizingPlayer)
                 boardScore == childResults.score
                 left == Release(childResults.heap, Len(heap))
                 take == \/ moveMade = NoMove
                         \/ IF maximizingPlayer THEN boardScore > value
                                                ELSE boardScore < value
             IN  MinimaxLoop(left, this, board, depth, maximizingPlayer, k + 1,
                             IF take THEN Move(i, j) ELSE moveMade,
                             IF take THEN boardScore ELSE value,
                             calls + childResults.calls,
                             Examined(tr, testMove, h[c.ret], boardScore,
                                      childResults.nodes))

\* setBoard without "taken.set(i)" for a 'b'
setBoardBlackUntaken(b, data) ==
    [taken |-> {i \in Squares : data[i] = "w"},
     black |-> {i \in Squares : data[i] = "b"}]

\* Board::setBoard: both bit-sets reset, then bit i set for data[i] = 'b' or 'w'
setBoard(b, data) ==
    [taken |-> {i \in Squares : data[i] = "b" \/ data[i] = "w"},
     black |-> {i \in Squares : data[i] = "b"}]

(***************************************************************************)
(* The state: the free store of Boards, the Player, and a record of the    *)
(* last call (its arguments, what it returned and the free store before    *)
(* it), kept for stating what a call did.                                  *)
(***************************************************************************)
VARIABLES heap, player, last, steps
vars == <<heap, player, last, steps>>

\* bounds of the model: calls in a run of the game, calls in a run of the Board
\* alone, Boards the harness holds, and the depth of a search
MaxSteps == 2
MaxBoardSteps == 3
MaxBoards == 3
MaxDepth == 2

\* the depths Player::doMove passes to the search
NEGAMAX_DEPTH == 7
MINIMAX_DEPTH == 2
Min(a, b) == IF a < b THEN a ELSE b

\* the two builds of Player in the repository: part_000 (negamax) and
\* player.cpp (minimax)
Builds == {"negamax", "minimax"}

\* a char data[64] given by the squares holding 'b' and those holding 'w'
Data(bs, ws) ==
    [i \in Squares |-> IF i \in bs THEN "b" ELSE IF i \in ws THEN "w" ELSE " "]

\* the arrays handed to Board::setBoard
Layouts ==
    { \* the opening
      Data(NewBoard.black, NewBoard.taken \ NewBoard.black),
      \* row 0: b w w w w w w .   (BLACK has the one placement (7,0), WHITE none)
      Data({0}, 1 .. 6),
      \* row 0: w w w . and a black piece far away: nobody can move
      Data({63}, {0, 1, 2}),
      \* (2,2) brackets white runs towards (5,2), (2,5) and (5,5)
      Data({2 + 8 * 5, 5 + 8 * 2, 5 + 8 * 5},
           {3 + 8 * 2, 4 + 8 * 2, 2 + 8 * 3, 2 + 8 * 4, 3 + 8 * 3, 4 + 8 * 4}),
      \* every square taken, left half black
      Data({i \in Squares : i % 8 < 4}, {i \in Squares : i % 8 >= 4}),
      \* BLACK can turn one piece from (2,4), two from (3,0), one from (4,2);
      \* WHITE one from (2,7) and one from (7,2)
      Data({0 + 8 * 0, 2 + 8 * 6, 6 + 8 * 2},
           {1 + 8 * 0, 2 + 8 * 0, 2 + 8 * 5, 5 + 8 * 2}),
      \* BLACK's (2,0) leaves WHITE without a placement and BLACK's (5,6) does
      \* not; WHITE has (0,1), (2,3) and (4,1); row 4 is white
      Data({1 + 8 * 1, 3 + 8 * 1, 2 + 8 * 2, 7 + 8 * 6},
           {2 + 8 * 1, 6 + 8 * 6} \cup {x + 8 * 4 : x \in Coords}),
      \* WHITE has no placement, and has (2,3) once BLACK has taken (2,2)
      Data({0 + 8 * 2}, {1 + 8 * 2, 2 + 8 * 1}) }

\* the moves tried in a run of the game: a pass, every placement legal for the
\* side, and two squares that are illegal on most boards
IllegalSamples == {Move(0, 0), Move(3, 3)}
MoveSamples(b, side) ==
    {NoMove} \cup {m \in AllMoves : checkMove(b, m, side)} \cup IllegalSamples

\* the (alpha, beta) windows and the depths of the direct calls of the search
Windows == {<<INT_MIN + 1, INT_MAX>>, <<-2, 2>>, <<1, -1>>}
Depths == 0 .. MaxDepth

\* the Boards the harness holds a pointer to: all but the one the Player made
HarnessBoards == 2 .. Len(heap)

\* Player::Player(side): testingMinimax = false, board = new Board()
Init ==
    /\ heap = <<NewBoard>>
    /\ \E s \in Sides, bd \in Builds :
          player = [board |-> 1, side |-> s, testingMinimax |-> FALSE, build |-> bd]
    /\ last = [op |-> "Player::Player"]
    /\ steps = 0

\* new Board()
BoardNew ==
    /\ Len(heap) < MaxBoards
    /\ heap' = Append(heap, NewBoard)
    /\ last' = [op |-> "Board::Board", ret |-> Len(heap) + 1]
    /\ steps' = steps + 1
    /\ UNCHANGED player

\* heap[id]->copy()
BoardCopy(id) ==
    /\ Len(heap) < MaxBoards
    /\ LET c == copy(heap, id)
       IN  /\ heap' = c.heap
           /\ last' = [op |-> "Board::copy", id |-> id, ret |-> c.ret, pre |-> heap]
    /\ steps' = steps + 1
    /\ UNCHANGED player

\* heap[id]->setBoard(data)
BoardSetBoard(id, data) ==
    /\ heap' = [heap EXCEPT ![id] = setBoard(@, data)]
    /\ last' = [op |-> "Board::setBoard", id |-> id, data |-> data, pre |-> heap]
    /\ steps' = steps + 1
    /\ UNCHANGED player

\* heap[id]->doMove(m, side)
BoardDoMove(id, m, side) ==
    /\ heap' = HeapDoMove(heap, id, m, side)
    /\ last' = [op |-> "Board::doMove", id |-> id, m |-> m, side |-> side,
                pre |-> heap]
    /\ steps' = steps + 1
    /\ UNCHANGED player

\* the harness makes a position: Board *b = new Board(); b->setBoard(data)
MakeBoard(data) ==
    /\ Len(heap) < MaxBoards
    /\ heap' = Append(heap, setBoard(NewBoard, data))
    /\ last' = [op |-> "MakeBoard", ret |-> Len(heap) + 1, data |-> data]
    /\ steps' = steps + 1
    /\ UNCHANGED player

\* the harness makes a position and hands it over, with the flag it runs under:
\* player->testingMinimax = testing (public member, player.hpp:19; "Will be set
\* to true in test_minimax.cpp", part_000:10); b = new Board();
\* b->setBoard(data); player->setBoard(b) (Player::setBoard, player.hpp:20)
GiveBoard(data, testing) ==
    /\ Len(heap) < MaxBoards
    /\ heap' = Append(heap, setBoard(NewBoard, data))
    /\ player' = [player EXCEPT !.board = Len(heap) + 1,
                                !.testingMinimax = testing]
    /\ last' = [op |-> "Player::setBoard", ret |-> Len(heap) + 1, data |-> data]
    /\ steps' = steps + 1

\* the search called with INT_MIN for alpha
InitialAlphaIntMin == INT_MIN

\* the window Player::doMove passes to negamax (part_000:44)
InitialAlpha == INT_MIN + 1
InitialBeta == INT_MAX

\* Player::doMove(opponentsMove, msLeft) of either build
PlayerDoMove(opponentsMove) ==
    /\ \E h1 \in {IF opponentsMove # NoMove
                  THEN HeapDoMove(heap, player.board, opponentsMove,
                                  Other(player.side))
                  ELSE heap} :
       \E results \in {IF player.build = "negamax"
                       THEN negamax(h1, player, player.board, player.side,
                                    Min(NEGAMAX_DEPTH, MaxDepth), InitialAlpha,
                                    InitialBeta)
                       ELSE minimax(h1, player, player.board,
                                    Min(MINIMAX_DEPTH, MaxDepth), TRUE)} :
       \E nextMove \in (IF results.ovf THEN AllMoves \cup {NoMove}
                                       ELSE {results.move}) :
         /\ heap' = IF nextMove # NoMove
                    THEN HeapDoMove(results.heap, player.board, nextMove, player.side)
                    ELSE results.heap
         /\ last' = [op |-> "Player::doMove", opp |-> opponentsMove,
                     ret |-> nextMove, pre |-> heap, mid |-> h1,
                     searched |-> results.heap, calls |-> results.calls,
                     score |-> results.score, ovf |-> results.ovf,
                     nodes |-> results.nodes]
    /\ steps' = steps + 1
    /\ UNCHANGED player

\* player->negamax(heap[id], playingSide, depth, alpha, beta) called directly
PlayerNegamax(id, playingSide, depth, alpha, beta) ==
    /\ player.build = "negamax"
    /\ \E results \in {negamax(heap, player, id, playingSide, depth, alpha, beta)} :
         /\ heap' = results.heap
         /\ last' = [op |-> "Player::negamax", id |-> id, playingSide |-> playingSide,
                     depth |-> depth, alpha |-> alpha, beta |-> beta,
                     score |-> results.score, move |-> results.move,
                     ovf |-> results.ovf, calls |-> results.calls, pre |-> heap,
                     nodes |-> results.nodes]
    /\ steps' = steps + 1
    /\ UNCHANGED player

\* player->minimax(heap[id], depth, maximizingPlayer) called directly
PlayerMinimax(id, depth, maximizingPlayer) ==
    /\ player.build = "minimax"
    /\ \E results \in {minimax(heap, player, id, depth, maximizingPlayer)} :
         /\ heap' = results.heap
         /\ last' = [op |-> "Player::minimax", id |-> id,
                     maximizingPlayer |-> maximizingPlayer, depth |-> depth,
                     score |-> results.score, move |-> results.move,
                     calls |-> results.calls, pre |-> heap,
                     nodes |-> results.nodes]
    /\ steps' = steps + 1
    /\ UNCHANGED player

\* The game and its harness: positions made and handed over, Boards copied and
\* moved on, turns taken, the search called directly.
Next ==
    \/ steps < MaxSteps /\ \E data \in Layouts : MakeBoard(data)
    \/ steps < MaxSteps /\ \E data \in Layouts, t \in BOOLEAN : GiveBoard(data, t)
    \/ steps < MaxSteps /\ \E id \in HarnessBoards : BoardCopy(id)
    \/ steps < MaxSteps /\ \E id \in HarnessBoards, side \in Sides :
          \E m \in MoveSamples(heap[id], side) : BoardDoMove(id, m, side)
    \/ steps < MaxSteps
          /\ \E m \in MoveSamples(heap[player.board], Other(player.side)) :
                PlayerDoMove(m)
    \/ steps < MaxSteps /\ \E id \in HarnessBoards, side \in Sides, d \in Depths,
                              w \in Windows : PlayerNegamax(id, side, d, w[1], w[2])
    \/ steps < MaxSteps /\ \E id \in HarnessBoards, d \in Depths, mx \in BOOLEAN :
          PlayerMinimax(id, d, mx)

Spec == Init /\ [][Next]_vars

\* The Board alone: Boards made, copied and set up, and every move tried on them.
InitBoard == Init /\ player.side = BLACK /\ player.build = "negamax"

NextBoard ==
    \/ steps < MaxBoardSteps /\ BoardNew
    \/ steps < MaxBoardSteps /\ \E id \in HarnessBoards : BoardCopy(id)
    \/ steps < MaxBoardSteps /\ \E id \in HarnessBoards, data \in Layouts :
          BoardSetBoard(id, data)
    \/ steps < MaxBoardSteps
          /\ \E id \in HarnessBoards, m \in AllMoves \cup {NoMove}, side \in Sides :
                BoardDoMove(id, m, side)

SpecBoard == InitBoard /\ [][NextBoard]_vars

\* A game played through from the opening: the opponent's move is reported to
\* Player::doMove turn after turn until Board::isDone.  The opponent passes
\* when it has no placement (and at the start, when the Player is BLACK and
\* moves first), takes any of its placements in its first BranchTurns turns and
\* afterwards the first of them in the order of the squares.
BranchTurns == 1

OpponentsPlacements ==
    {m \in AllMoves : checkMove(heap[player.board], m, Other(player.side))}

OpponentsMoves ==
    IF steps = 0 /\ player.side = BLACK THEN {NoMove}
    ELSE IF OpponentsPlacements = {} THEN {NoMove}
    ELSE IF steps < BranchTurns + (IF player.side = BLACK THEN 1 ELSE 0)
    THEN OpponentsPlacements
    ELSE {CHOOSE m \in OpponentsPlacements :
            \A n \in OpponentsPlacements :
                getX(m) + 8 * getY(m) <= getX(n) + 8 * getY(n)}

NextGame ==
    /\ ~isDone(heap[player.board])
    /\ steps < BOARD_SIZE * BOARD_SIZE
    /\ \E m \in OpponentsMoves : PlayerDoMove(m)

SpecGame == Init /\ [][NextGame]_vars

\* Board::getSquarePosition alone: a square is chosen and the function, which
\* is static and reads no Board, is called on it.
InitPosition ==
    /\ heap = <<NewBoard>>
    /\ player = [board |-> 1, side |-> BLACK, testingMinimax |-> FALSE,
                 build |-> "negamax"]
    /\ \E x \in Coords, y \in Coords : last = [op |-> "square", x |-> x, y |-> y]
    /\ steps = 0

\* Board::getSquarePosition(x, y)
BoardGetSquarePosition(x, y) ==
    /\ last' = [op |-> "Board::getSquarePosition", x |-> x, y |-> y,
                ret |-> getSquarePosition(x, y)]
    /\ steps' = steps + 1
    /\ UNCHANGED <<heap, player>>

NextPosition == last.op = "square" /\ BoardGetSquarePosition(last.x, last.y)

SpecPosition == InitPosition /\ [][NextPosition]_vars

(***************************************************************************)
(* What the claims are stated with: the rules of the game written down     *)
(* without the loops of the code.                                          *)
(***************************************************************************)
EightDirections == {<<dx, dy>> \in {-1, 0, 1} \X {-1, 0, 1} : <<dx, dy>> # <<0, 0>>}

InRange(x, y) == x \in Coords /\ y \in Coords

\* the colour of the piece on (x, y), or "none"
Owner(b, x, y) ==
    IF (x + 8 * y) \notin b.taken THEN "none"
    ELSE IF (x + 8 * y) \in b.black THEN BLACK ELSE WHITE

\* the lengths n >= 1 of a run of opposing pieces that starts next to (X, Y) in
\* direction d and is followed at once, on the board, by a piece of side
BracketLengths(b, X, Y, side, d) ==
    {n \in 1 .. (BOARD_SIZE - 2) :
        /\ \A k \in 1 .. n :
              /\ InRange(X + k * d[1], Y + k * d[2])
              /\ Owner(b, X + k * d[1], Y + k * d[2]) = Other(side)
        /\ InRange(X + (n + 1) * d[1], Y + (n + 1) * d[2])
        /\ Owner(b, X + (n + 1) * d[1], Y + (n + 1) * d[2]) = side}

Brackets(b, X, Y, side, d) == BracketLengths(b, X, Y, side, d) # {}

\* the rule of a legal placement
LegalPlacement(b, X, Y, side) ==
    /\ Owner(b, X, Y) = "none"
    /\ \E d \in EightDirections : Brackets(b, X, Y, side, d)

LegalPlacements(b, side) ==
    {m \in AllMoves : LegalPlacement(b, getX(m), getY(m), side)}

\* the Boards the last call made or worked on
Touched ==
    IF last.op \in {"Board::Board", "Board::copy", "MakeBoard", "Player::setBoard"}
    THEN {last.ret}
    ELSE IF last.op \in {"Board::setBoard", "Board::doMove", "Player::negamax",
                         "Player::minimax"}
    THEN {last.id}
    ELSE {player.board}

\* C2: on every board, for every square (x, y) on the board and either side,
\* Board::checkMove((x, y), side) is true exactly when the square is empty and
\* some direction holds a run of one or more opposing pieces next to it that is
\* followed at once, on the board, by a piece of the side.
C2_CheckMoveIsBracketing ==
    \A id \in Touched : \A x \in Coords, y \in Coords, side \in Sides :
        checkMove(heap[id], Move(x, y), side) <=> LegalPlacement(heap[id], x, y, side)

\* a board on which a placement is legal by a run of six that ends at the edge
\* square before it, and a square next to a run that runs off the board is not
C2_Witness ==
    \E id \in Touched :
        /\ checkMove(heap[id], Move(7, 0), BLACK)
        /\ BracketLengths(heap[id], 7, 0, BLACK, <<-1, 0>>) = {6}
        /\ ~checkMove(heap[id], Move(7, 0), WHITE)
        /\ \E m \in AllMoves : Owner(heap[id], getX(m), getY(m)) = "none"
                                /\ ~checkMove(heap[id], m, BLACK)

\* C1: after Player::doMove, the move returned is one Board::checkMove accepts for
\* the agent's side on the board as the opponent's move left it, and it is the
\* no-move value exactly when that board has no legal placement for the agent.
C1_DoMoveReturnsLegalOrPass ==
    last.op = "Player::doMove" =>
        LET b == last.mid[player.board]
        IN  /\ last.ret # NoMove =>
                  /\ last.ret \in AllMoves
                  /\ checkMove(b, last.ret, player.side)
            /\ last.ret = NoMove <=> LegalPlacements(b, player.side) = {}

\* a turn that answered an opponent's capture with a pass, having no placement
C1_Witness ==
    /\ last.op = "Player::doMove"
    /\ last.opp # NoMove
    /\ last.mid # last.pre
    /\ last.ret = NoMove
    /\ LegalPlacements(last.mid[player.board], player.side) = {}

\* a turn that answered an opponent's capture with a placement
C1_WitnessPlacement ==
    /\ last.op = "Player::doMove"
    /\ last.opp # NoMove
    /\ last.mid # last.pre
    /\ last.ret # NoMove
    /\ heap # last.mid

\* the squares a legal placement of side on (X, Y) turns over
Flipped(b, X, Y, side) ==
    UNION {{(X + k * d[1]) + 8 * (Y + k * d[2]) : k \in 1 .. n} :
              <<d, n>> \in {<<e, l>> \in EightDirections \X (1 .. (BOARD_SIZE - 2)) :
                               l \in BracketLengths(b, X, Y, side, e)}}

\* the board a legal placement leaves
AfterPlacement(b, X, Y, side) ==
    LET changed == Flipped(b, X, Y, side) \cup {X + 8 * Y}
    IN  [taken |-> b.taken \cup {X + 8 * Y},
         black |-> IF side = BLACK THEN b.black \cup changed
                                   ELSE b.black \ changed]

\* the last call was Board::doMove with a legal placement
LegalDoMove ==
    /\ last.op = "Board::doMove"
    /\ last.m # NoMove
    /\ LegalPlacement(last.pre[last.id], getX(last.m), getY(last.m), last.side)

\* C3: Board::doMove with a legal placement turns over, in every direction that
\* brackets a run, every piece of the run, puts the side's piece on the target
\* square and leaves every other square as it was.
C3_DoMoveFlipsAllDirections ==
    LegalDoMove =>
        heap[last.id] = AfterPlacement(last.pre[last.id], getX(last.m),
                                       getY(last.m), last.side)

\* a placement that turned over runs in three directions
C3_Witness ==
    /\ LegalDoMove
    /\ Cardinality({d \in EightDirections :
                       Brackets(last.pre[last.id], getX(last.m), getY(last.m),
                                last.side, d)}) >= 3
    /\ heap[last.id] # last.pre[last.id]

\* C4: Board::doMove with a pass or with a placement Board::checkMove rejects
\* leaves both bit-sets as they were, whatever the square; and an illegal move of
\* the opponent handed to Player::doMove leaves the Player's board as it was
\* when the search starts.
C4_IllegalMoveChangesNothing ==
    /\ (/\ last.op = "Board::doMove"
        /\ (last.m = NoMove \/ ~checkMove(last.pre[last.id], last.m, last.side)))
          => heap = last.pre
    /\ (/\ last.op = "Player::doMove"
        /\ last.opp # NoMove
        /\ ~checkMove(last.pre[player.board], last.opp, Other(player.side)))
          => last.mid = last.pre
    /\ \A id \in Touched, side \in Sides, m \in AllMoves \cup {NoMove} :
          (m = NoMove \/ ~checkMove(heap[id], m, side))
              => doMove(heap[id], m, side) = heap[id]

\* a turn whose opponent's move was a placement on a taken square
C4_Witness ==
    /\ last.op = "Player::doMove"
    /\ last.opp # NoMove
    /\ Owner(last.pre[player.board], getX(last.opp), getY(last.opp)) # "none"
    /\ last.mid = last.pre
    /\ last.ret # NoMove

\* C5: a legal Board::doMove on a board whose black squares are all taken makes
\* count(side) larger, count(opponent) no larger, and the taken squares one more.
C5_LegalMoveCounts ==
    (/\ last.op = "Board::doMove"
     /\ last.m # NoMove
     /\ checkMove(last.pre[last.id], last.m, last.side)
     /\ last.pre[last.id].black \subseteq last.pre[last.id].taken)
       => LET b0 == last.pre[last.id]
              b1 == heap[last.id]
          IN  /\ count(b1, last.side) > count(b0, last.side)
              /\ count(b1, Other(last.side)) <= count(b0, Other(last.side))
              /\ Cardinality(b1.taken) = Cardinality(b0.taken) + 1

\* a legal placement that turned over more than one piece
C5_Witness ==
    /\ LegalDoMove
    /\ last.pre[last.id].black \subseteq last.pre[last.id].taken
    /\ count(heap[last.id], Other(last.side))
          < count(last.pre[last.id], Other(last.side)) - 1
    /\ count(heap[last.id], last.side) > count(last.pre[last.id], last.side) + 2

\* C6: Board::hasMoves(side) is true exactly when some square of the board is a
\* placement Board::checkMove accepts, and Board::checkMove accepts a pass exactly
\* when hasMoves is false.
C6_HasMovesIffSomeLegal ==
    \A id \in Touched, side \in Sides :
        /\ hasMoves(heap[id], side)
              <=> \E x \in Coords, y \in Coords : checkMove(heap[id], Move(x, y), side)
        /\ checkMove(heap[id], NoMove, side) <=> ~hasMoves(heap[id], side)

\* a board on which one side can move and the other can only pass
C6_Witness ==
    \E id \in Touched :
        /\ hasMoves(heap[id], BLACK)
        /\ ~hasMoves(heap[id], WHITE)
        /\ checkMove(heap[id], NoMove, WHITE)
        /\ ~checkMove(heap[id], NoMove, BLACK)

\* C7: on every Board, after any calls of Board::doMove, Board::setBoard,
\* Board::copy and Player::doMove, every black square is a taken square.
C7_BlackSubsetOfTaken ==
    /\ \A id \in DOMAIN heap : heap[id].black \subseteq heap[id].taken
    /\ last.op = "Player::doMove" =>
          \A id \in DOMAIN last.mid : /\ last.mid[id].black \subseteq last.mid[id].taken
                                      /\ last.searched[id].black
                                            \subseteq last.searched[id].taken

\* a turn played on a position made by Board::setBoard
C7_Witness ==
    /\ last.op = "Player::doMove"
    /\ player.board # 1
    /\ last.ret # NoMove
    /\ heap[player.board].black # {}
    /\ heap[player.board] # last.pre[player.board]

\* C8: Board::copy returns a new Board whose two bit-sets are those of the
\* original at the call and changes no Board; and Board::doMove and
\* Board::setBoard on one Board leave every other Board (a copy of it, or the
\* one it was copied from) as it was.
C8_CopyIsIndependent ==
    /\ last.op = "Board::copy" =>
          /\ last.ret \notin DOMAIN last.pre
          /\ heap[last.ret].taken = last.pre[last.id].taken
          /\ heap[last.ret].black = last.pre[last.id].black
          /\ \A i \in DOMAIN last.pre : heap[i] = last.pre[i]
    /\ last.op \in {"Board::doMove", "Board::setBoard"} =>
          /\ DOMAIN heap = DOMAIN last.pre
          /\ \A i \in DOMAIN heap \ {last.id} :
                /\ heap[i] = last.pre[i]
                /\ count(heap[i], BLACK) = count(last.pre[i], BLACK)
                /\ count(heap[i], WHITE) = count(last.pre[i], WHITE)

\* a copy of a Board that is no longer as the constructor made it
C8_Witness ==
    /\ last.op = "Board::copy"
    /\ last.pre[last.id] # NewBoard
    /\ heap[last.ret] = heap[last.id]

\* a Board changed while another with the same squares stayed
C8_WitnessMutation ==
    /\ last.op \in {"Board::doMove", "Board::setBoard"}
    /\ Len(heap) = 3
    /\ last.pre[2] = last.pre[3]
    /\ heap[2] # heap[3]

\* C9: a Board from the constructor has the four centre squares taken, (3,3)
\* and (4,4) WHITE, (3,4) and (4,3) BLACK, nothing else, and BLACK's legal
\* placements on it are (2,3), (3,2), (4,5) and (5,4).
C9_FreshBoard ==
    last.op \in {"Board::Board", "Player::Player"} =>
        LET b == heap[IF last.op = "Board::Board" THEN last.ret ELSE player.board]
        IN  /\ \A x \in Coords, y \in Coords :
                  Owner(b, x, y) =
                      IF <<x, y>> \in {<<3, 3>>, <<4, 4>>} THEN WHITE
                      ELSE IF <<x, y>> \in {<<3, 4>>, <<4, 3>>} THEN BLACK
                      ELSE "none"
            /\ {m \in AllMoves : checkMove(b, m, BLACK)}
                  = {Move(2, 3), Move(3, 2), Move(4, 5), Move(5, 4)}

\* a Board constructed after another one was moved on
C9_Witness ==
    /\ last.op = "Board::Board"
    /\ last.ret = 3
    /\ heap[2] # heap[3]

\* the evaluation the build's search takes at its base case (Board::getScore for
\* the Player's own side; C21 is about the mode)
BaseEvaluation(b) ==
    getScore(b, player.side,
             IF player.build = "negamax" THEN TRUE ELSE player.testingMinimax)

\* C10: Player::negamax called with depth 0, or on a board where the side to
\* move has no legal placement, returns the evaluation of the board passed to
\* it for the Player's own side and no move, for every window, and explores no
\* child: it makes no further call and no Board.
C10_BaseCase ==
    (/\ last.op \in {"Player::negamax", "Player::minimax"}
     /\ \/ last.depth = 0
        \/ LegalPlacements(last.pre[last.id],
                           IF last.op = "Player::negamax" THEN last.playingSide
                           ELSE IF last.maximizingPlayer THEN player.side
                           ELSE Other(player.side)) = {})
       => /\ last.score = BaseEvaluation(last.pre[last.id])
          /\ last.move = NoMove
          /\ last.calls = 1
          /\ heap = last.pre

\* negamax called with a depth above 0 and a narrow window for the opponent's
\* side, which cannot move, on a board that is not the Player's
C10_Witness ==
    /\ last.op = "Player::negamax"
    /\ last.depth > 0
    /\ last.playingSide # player.side
    /\ <<last.alpha, last.beta>> # <<INT_MIN + 1, INT_MAX>>
    /\ LegalPlacements(last.pre[last.id], last.playingSide) = {}
    /\ LegalPlacements(last.pre[last.id], player.side) # {}
    /\ last.id # player.board
    /\ last.score # 0
    /\ last.move = NoMove

\* the calls of the last search: the call made and every call below it
SearchCalls ==
    IF last.op \in {"Player::doMove", "Player::negamax", "Player::minimax"}
    THEN {last.nodes[n] : n \in DOMAIN last.nodes}
    ELSE {}

\* the placements a call examined
SeenSet(nd) == {nd.seen[i] : i \in DOMAIN nd.seen}

\* C11: at every call of the search, at every depth, each child explored is the
\* board passed to the call with a placement applied that is legal on that board
\* for the side to move, and a call that ran through its loops explored every
\* such placement; so what the call does is fixed by the board passed to it.
C11_ChildrenOfPassedBoard ==
    \A nd \in SearchCalls :
        /\ \A i \in DOMAIN nd.seen :
              /\ LegalPlacement(nd.board, getX(nd.seen[i]), getY(nd.seen[i]), nd.side)
              /\ nd.kids[i] = AfterPlacement(nd.board, getX(nd.seen[i]),
                                             getY(nd.seen[i]), nd.side)
        /\ (nd.depth > 0 /\ ~nd.cut) => SeenSet(nd) = LegalPlacements(nd.board, nd.side)

\* the largest and the smallest of a non-empty set of integers
MaxOf(S) == CHOOSE v \in S : \A w \in S : w <= v
MinOf(S) == CHOOSE v \in S : \A w \in S : v <= w

\* the depth-d minimax value of board b with side s to move, for the Player's
\* side: the static evaluation at depth 0 and where s has no placement, else the
\* largest value of a child when the Player's side moves and the smallest when
\* the opponent moves
RECURSIVE MinimaxValue(_, _, _)
MinimaxValue(b, s, d) ==
    LET ms == LegalPlacements(b, s)
    IN  IF d = 0 \/ ms = {} THEN BaseEvaluation(b)
        ELSE LET vs == {MinimaxValue(AfterPlacement(b, getX(m), getY(m), s),
                                     Other(s), d - 1) : m \in ms}
             IN  IF s = player.side THEN MaxOf(vs) ELSE MinOf(vs)

\* the last call was negamax at the root: on the Player's own board, for the
\* Player's side, with the window Player::doMove passes, and a depth above 0
RootNegamax ==
    /\ last.op = "Player::negamax"
    /\ last.id = player.board
    /\ last.playingSide = player.side
    /\ last.alpha = INT_MIN + 1
    /\ last.beta = INT_MAX
    /\ last.depth >= 1

\* C12: negamax called at the root for the Player's side with the window
\* (INT_MIN+1, INT_MAX) and a depth d >= 1 returns the depth-d minimax value of
\* the position (the Player's side maximising the static evaluation taken for the
\* Player's side, the opponent minimising it) and a move that attains it; at
\* depth 1 that is a move to a board of the largest static evaluation.
C12_RootValueIsMinimax ==
    RootNegamax =>
        LET b == last.pre[last.id]
            v == MinimaxValue(b, player.side, last.depth)
        IN  /\ last.score = v
            /\ LegalPlacements(b, player.side) # {} =>
                  /\ last.move \in LegalPlacements(b, player.side)
                  /\ MinimaxValue(AfterPlacement(b, getX(last.move), getY(last.move),
                                                 player.side),
                                  Other(player.side), last.depth - 1) = v

\* the side to move in the last direct call of a search
SideToMove ==
    IF last.op = "Player::negamax" THEN last.playingSide
    ELSE IF last.maximizingPlayer THEN player.side ELSE Other(player.side)

\* the last call was a search of depth 1, unbounded, on a board with exactly one
\* legal placement for the side to move
SingleMoveSearch ==
    /\ last.op \in {"Player::negamax", "Player::minimax"}
    /\ last.depth = 1
    /\ last.op = "Player::negamax" => last.alpha = INT_MIN + 1 /\ last.beta = INT_MAX
    /\ Cardinality(LegalPlacements(last.pre[last.id], SideToMove)) = 1

\* C13: on a board where the side to move has exactly one legal placement the
\* search at depth 1 returns that placement, whatever the evaluation of the board
\* it leads to.
C13_SingleMoveIsReturned ==
    SingleMoveSearch => {last.move} = LegalPlacements(last.pre[last.id], SideToMove)

\* the same on the Player's own board, where the code does return it
C13_OnOwnBoard ==
    (SingleMoveSearch /\ last.id = player.board)
        => {last.move} = LegalPlacements(last.pre[last.id], SideToMove)

\* the squares holding a piece of side
Pieces(b, side) == {m \in AllMoves : Owner(b, getX(m), getY(m)) = side}

\* C14: on every board and for either side S, Board::getScore(S, true) is
\* count(S) minus count(opponent of S); on a board whose black squares are all
\* taken that is the number of S's pieces minus the number of the opponent's.
C14_SimpleScore ==
    \A id \in Touched, side \in Sides :
        LET b == heap[id]
        IN  /\ getScore(b, side, TRUE) = count(b, side) - count(b, Other(side))
            /\ b.black \subseteq b.taken =>
                  getScore(b, side, TRUE)
                      = Cardinality(Pieces(b, side)) - Cardinality(Pieces(b, Other(side)))

\* a move left a board on which WHITE is ahead and BLACK still has pieces
C14_Witness ==
    /\ LegalDoMove
    /\ getScore(heap[last.id], WHITE, TRUE) > 1
    /\ getScore(heap[last.id], BLACK, TRUE) < -1
    /\ Pieces(heap[last.id], BLACK) # {}

\* the weight of a class of squares, as the claim gives it
ClassWeight(pos) ==
    IF pos = CORNER THEN 3
    ELSE IF pos = EDGE THEN 2
    ELSE IF pos = NEXT_TO_CORNER THEN -2
    ELSE IF pos = DIAGONAL_TO_CORNER THEN -3
    ELSE 1

\* the pieces of side on squares of class pos
PiecesOfClass(b, side, pos) ==
    {m \in Pieces(b, side) : getSquarePosition(getX(m), getY(m)) = pos}

\* the weight of a class times the pieces side has more than the opponent on it
ClassTerm(b, side, pos) ==
    ClassWeight(pos) * (Cardinality(PiecesOfClass(b, side, pos))
                          - Cardinality(PiecesOfClass(b, Other(side), pos)))

\* the sum over the taken squares of the weight of the square's class, positive
\* for a piece of side and negative for a piece of the opponent
WeightedSum(b, side) ==
    ClassTerm(b, side, CORNER) + ClassTerm(b, side, EDGE)
        + ClassTerm(b, side, NEXT_TO_CORNER) + ClassTerm(b, side, DIAGONAL_TO_CORNER)
        + ClassTerm(b, side, POS_OTHER)

\* board b with the square (x, y) emptied
Without(b, x, y) == [taken |-> b.taken \ {x + 8 * y}, black |-> b.black \ {x + 8 * y}]

\* C15: on every board whose black squares are all taken and for either side S,
\* Board::getScore(S, false) is the sum over the taken squares of the weight of
\* the square's class (CORNER 3, EDGE 2, NEXT_TO_CORNER -2, DIAGONAL_TO_CORNER -3,
\* OTHER 1), positive for S's pieces and negative for the opponent's; a BLACK
\* piece on (0,0) adds exactly 3 to BLACK's score and takes 3 from WHITE's.
C15_PositionalScore ==
    \A id \in Touched :
        LET b == heap[id]
        IN  b.black \subseteq b.taken =>
              /\ \A side \in Sides : getScore(b, side, FALSE) = WeightedSum(b, side)
              /\ Owner(b, 0, 0) = BLACK =>
                    /\ getScore(b, BLACK, FALSE)
                          = getScore(Without(b, 0, 0), BLACK, FALSE) + 3
                    /\ getScore(b, WHITE, FALSE)
                          = getScore(Without(b, 0, 0), WHITE, FALSE) - 3

\* a board with BLACK on (0,0) and pieces of both sides on squares of three classes
C15_Witness ==
    \E id \in Touched :
        /\ Owner(heap[id], 0, 0) = BLACK
        /\ PiecesOfClass(heap[id], WHITE, NEXT_TO_CORNER) # {}
        /\ PiecesOfClass(heap[id], WHITE, EDGE) # {}
        /\ getScore(heap[id], BLACK, FALSE) # -getScore(heap[id], BLACK, TRUE)
        /\ getScore(heap[id], BLACK, FALSE) = -getScore(heap[id], WHITE, FALSE)

\* the place of a placement in the loops "for i, for j" over Move(i, j): x in the
\* outer loop, y in the inner one
ScanIndex(m) == BOARD_SIZE * getX(m) + getY(m)

\* the place of a placement in row-major order: the square index x + 8y
RowMajorIndex(m) == getX(m) + BOARD_SIZE * getY(m)

\* the scores a call had of the placements it examined
ValSet(nd) == {nd.vals[i] : i \in DOMAIN nd.vals}

\* the best of them: the smallest where minimax moves for the opponent, the
\* largest otherwise
BestVal(nd) ==
    IF player.build = "minimax" /\ nd.side # player.side THEN MinOf(ValSet(nd))
                                                           ELSE MaxOf(ValSet(nd))

\* the placements a call examined with the best score
BestSeen(nd) == {nd.seen[i] : i \in {j \in DOMAIN nd.seen : nd.vals[j] = BestVal(nd)}}

\* C16 as stated: every call of the search examines placements in increasing
\* order of the square index x + 8y, and the move it returns is the first in
\* that order of the placements that tie for the best score.
C16_RowMajorOrder ==
    \A nd \in SearchCalls :
        /\ \A i \in DOMAIN nd.seen, j \in DOMAIN nd.seen :
              i < j => RowMajorIndex(nd.seen[i]) < RowMajorIndex(nd.seen[j])
        /\ nd.move # NoMove =>
              /\ nd.move \in BestSeen(nd)
              /\ \A m \in BestSeen(nd) : RowMajorIndex(nd.move) <= RowMajorIndex(m)

\* C16 amended: every call of the search examines placements in increasing order
\* of 8x + y (x in the outer loop, y in the inner one), and the move it returns
\* is the first in that order of the placements examined that tie for the best
\* score: a later placement with an equal score never replaces it.
C16_ScanOrder ==
    \A nd \in SearchCalls :
        /\ \A i \in DOMAIN nd.seen, j \in DOMAIN nd.seen :
              i < j => ScanIndex(nd.seen[i]) < ScanIndex(nd.seen[j])
        /\ nd.move # NoMove =>
              /\ nd.move \in BestSeen(nd)
              /\ \A m \in BestSeen(nd) : ScanIndex(nd.move) <= ScanIndex(m)

\* a call returned the earlier of two placements that tie for best, and the
\* other one is the earlier in row-major order
C16_Witness ==
    \E nd \in SearchCalls :
        /\ nd.move # NoMove
        /\ \E m \in BestSeen(nd) :
              /\ ScanIndex(nd.move) < ScanIndex(m)
              /\ RowMajorIndex(m) < RowMajorIndex(nd.move)

\* the Player's own board while the last search ran
OwnBoardInSearch ==
    IF last.op = "Player::doMove" THEN last.mid[player.board]
                                  ELSE last.pre[player.board]

\* the places in a call's loop where the negated score of the child was above beta
AboveBeta(nd) == {i \in DOMAIN nd.vals : nd.vals[i] > nd.beta}

\* C17: in a call of negamax, as soon as the negated score of a child is above
\* beta the loops stop: that placement is the last one examined, and the call
\* returns beta with that placement; a call returns by the cutoff in no other case.
C17_BetaCutoff ==
    player.build = "negamax" =>
        \A nd \in SearchCalls :
            /\ nd.cut <=> AboveBeta(nd) # {}
            /\ AboveBeta(nd) # {} =>
                  /\ AboveBeta(nd) = {Len(nd.seen)}
                  /\ Len(nd.kids) = Len(nd.seen)
                  /\ nd.score = nd.beta
                  /\ nd.move = nd.seen[Len(nd.seen)]

\* a call left by the cutoff after it had gone on from an earlier placement, with
\* a placement later in the scan that it would have examined next
C17_Witness ==
    /\ player.build = "negamax"
    /\ \E nd \in SearchCalls :
          /\ nd.cut
          /\ Len(nd.seen) >= 2
          /\ \E m \in LegalPlacements(OwnBoardInSearch, nd.side) :
                ScanIndex(m) > ScanIndex(nd.move)

\* The recursion of Player::negamax with the cutoff taken out, on board values:
\* the base case evaluates the board passed, the loop goes through every
\* placement the Player's own board allows the side to move, in scan order, on
\* the own board with the placement applied, keeps the first best score above
\* alpha, and returns alpha with its move when the loop has run out.
RECURSIVE NoCutoff(_, _, _, _, _)
RECURSIVE NoCutoffLoop(_, _, _, _, _, _, _)
NoCutoff(b, s, d, alpha, beta) ==
    IF d = 0 \/ LegalPlacements(b, s) = {}
    THEN [score |-> BaseEvaluation(b), move |-> NoMove, calls |-> 1]
    ELSE NoCutoffLoop(s, d, alpha, beta, LegalPlacements(OwnBoardInSearch, s),
                      NoMove, 1)

NoCutoffLoop(s, d, alpha, beta, todo, moveMade, calls) ==
    IF todo = {}
    THEN [score |-> alpha, move |-> moveMade, calls |-> calls]
    ELSE LET m == CHOOSE c \in todo : \A o \in todo : ScanIndex(c) <= ScanIndex(o)
             kid == AfterPlacement(OwnBoardInSearch, getX(m), getY(m), s)
             r == NoCutoff(kid, Other(s), d - 1, -beta, -alpha)
             v == -r.score
         IN  NoCutoffLoop(s, d, IF v > alpha THEN v ELSE alpha, beta, todo \ {m},
                          IF v > alpha THEN m ELSE moveMade, calls + r.calls)

\* the last call was negamax with the window (INT_MIN+1, INT_MAX), made directly
\* or by Player::doMove
FullWindowNegamax ==
    /\ player.build = "negamax"
    /\ \/ last.op = "Player::doMove"
       \/ /\ last.op = "Player::negamax"
          /\ last.alpha = INT_MIN + 1
          /\ last.beta = INT_MAX

\* that call with the cutoff taken out
WithoutCutoff ==
    IF last.op = "Player::doMove"
    THEN NoCutoff(OwnBoardInSearch, player.side, Min(NEGAMAX_DEPTH, MaxDepth),
                  INT_MIN + 1, INT_MAX)
    ELSE NoCutoff(last.pre[last.id], last.playingSide, last.depth,
                  INT_MIN + 1, INT_MAX)

\* C18: negamax called with the window (INT_MIN+1, INT_MAX) returns the score and
\* the move that the same recursion returns with the beta cutoff taken out, every
\* placement of every call explored.
C18_PruningKeepsRootResult ==
    FullWindowNegamax =>
        /\ last.score = WithoutCutoff.score
        /\ (IF last.op = "Player::doMove" THEN last.ret ELSE last.move)
              = WithoutCutoff.move

\* a search that returned a move and made fewer calls than it makes without the
\* cutoff
C18_Witness ==
    /\ FullWindowNegamax
    /\ last.calls < WithoutCutoff.calls
    /\ WithoutCutoff.move # NoMove
    /\ \E nd \in SearchCalls : nd.cut

\* board b after the move m of side: the placement applied when it is legal,
\* nothing for a pass or an illegal placement
AfterMove(b, m, side) ==
    IF m # NoMove /\ LegalPlacement(b, getX(m), getY(m), side)
    THEN AfterPlacement(b, getX(m), getY(m), side)
    ELSE b

\* C19: in a Player::doMove call the Player's board changes by the opponent's
\* move before the search and by the returned move after it and in no other way:
\* the search leaves every Board as it was, the Player's own and the one passed
\* to it, so after the call the Player's board is the board before it with the
\* opponent's move and then the returned move applied, and no other Board changed.
C19_OnlyTwoChangesPerTurn ==
    /\ last.op = "Player::doMove" =>
          LET pb == player.board
              b1 == AfterMove(last.pre[pb], last.opp, Other(player.side))
          IN  /\ last.mid = [last.pre EXCEPT ![pb] = b1]
              /\ last.searched = last.mid
              /\ heap = [last.pre EXCEPT ![pb] = AfterMove(b1, last.ret, player.side)]
    /\ last.op \in {"Player::negamax", "Player::minimax"} => heap = last.pre
    /\ \A nd \in SearchCalls : nd.after = nd.board

\* a turn in which the opponent's move and the returned move both changed the
\* Player's board and the search went two levels down
C19_Witness ==
    /\ last.op = "Player::doMove"
    /\ last.mid[player.board] # last.pre[player.board]
    /\ heap[player.board] # last.mid[player.board]
    /\ Len(heap) >= 2
    /\ \E nd \in SearchCalls : nd.depth = 0 /\ nd.board # heap[player.board]
    /\ last.calls > 3

\* the values an int may take here without a negation overflowing
Negatable == (INT_MIN + 1) .. INT_MAX

\* C20: in every negamax call made from Player::doMove, alpha, beta and every
\* score of a child, the values that get negated, differ from INT_MIN, so that
\* no negation overflows, and alpha, beta and the score returned are within
\* INT_MIN+1 .. INT_MAX.
C20_NoNegationOverflow ==
    (last.op = "Player::doMove" /\ player.build = "negamax") =>
        /\ ~last.ovf
        /\ last.score \in Negatable
        /\ \A nd \in SearchCalls :
              /\ nd.alpha \in Negatable
              /\ nd.beta \in Negatable
              /\ nd.score \in Negatable
              /\ \A i \in DOMAIN nd.vals : nd.vals[i] \in Negatable

\* a turn whose search passed the ends of the window down and had them come
\* back negated: a call below the root returned its alpha INT_MIN+1 untouched
\* and its caller has the score INT_MAX
C20_Witness ==
    /\ last.op = "Player::doMove"
    /\ player.build = "negamax"
    /\ \E nd \in SearchCalls :
          /\ nd.depth < Min(NEGAMAX_DEPTH, MaxDepth)
          /\ nd.alpha = INT_MIN + 1
          /\ nd.score = INT_MIN + 1
    /\ \E nd \in SearchCalls : \E i \in DOMAIN nd.vals : nd.vals[i] = INT_MAX

\* a call that took the base case: "depth == 0 || !board->hasMoves(playingSide)"
IsBaseCase(nd) == nd.depth = 0 \/ ~hasMoves(nd.board, nd.side)

\* C21: while the agent's flag testingMinimax is false, as it is after
\* construction, the evaluation returned at a leaf of the search is the
\* positional score of the leaf board (getScore with the simple mode off), not
\* the difference of the piece counts.
C21_LeafIsPositional ==
    ~player.testingMinimax =>
        \A nd \in SearchCalls :
            IsBaseCase(nd) => nd.score = getScore(nd.board, player.side, FALSE)

\* what holds of the two builds: the leaves of minimax follow the flag
\* (player.cpp:64), those of negamax are in the simple mode whatever the flag
\* (part_000:71)
C21_MinimaxFollowsFlag ==
    player.build = "minimax" =>
        \A nd \in SearchCalls :
            IsBaseCase(nd) =>
                nd.score = getScore(nd.board, player.side, player.testingMinimax)
C21_NegamaxIsSimple ==
    player.build = "negamax" =>
        \A nd \in SearchCalls :
            IsBaseCase(nd) => nd.score = getScore(nd.board, player.side, TRUE)

\* searches under either value of the flag whose leaves tell the two modes apart
C21_FlagSeen ==
    /\ last.op = "Player::doMove"
    /\ player.testingMinimax
    /\ \E nd \in SearchCalls :
          /\ IsBaseCase(nd)
          /\ getScore(nd.board, player.side, TRUE)
                # getScore(nd.board, player.side, FALSE)

\* the calls of the last search in the order they were made, the call made first
NodeSeq ==
    IF last.op \in {"Player::doMove", "Player::negamax", "Player::minimax"}
    THEN last.nodes
    ELSE <<>>

RECURSIVE SumOf(_, _)
SumOf(q, n) == IF n = 0 THEN 0 ELSE q[n] + SumOf(q, n - 1)

\* the calls that call n stands for, itself included, and the place in NodeSeq
\* of the call it made for its i-th child
SizeOf(n) == 1 + SumOf(NodeSeq[n].sizes, Len(NodeSeq[n].sizes))
ChildIndex(n, i) == n + 1 + SumOf(NodeSeq[n].sizes, i - 1)

\* the calls that are running when call n is made
CallersOf(n) == {m \in 1 .. (n - 1) : n < m + SizeOf(m)}

\* 1 + 64 + ... + 64^d, the most calls a search of depth d can make
RECURSIVE MostCalls(_)
MostCalls(d) ==
    IF d = 0 THEN 1 ELSE 1 + BOARD_SIZE * BOARD_SIZE * MostCalls(d - 1)

\* C22: a search called with depth d >= 0 comes to an end: no call is nested
\* more than d calls below the one made, a call recurses on at most 64
\* children, and every call for a child has depth exactly one less than that
\* of its caller.
C22_SearchTerminates ==
    NodeSeq # <<>> =>
        LET d == NodeSeq[1].depth
        IN  /\ Len(NodeSeq) = last.calls
            /\ SizeOf(1) = Len(NodeSeq)
            /\ last.calls <= MostCalls(d)
            /\ \A n \in DOMAIN NodeSeq :
                  /\ Cardinality(CallersOf(n)) <= d
                  /\ Cardinality(CallersOf(n)) = d - NodeSeq[n].depth
                  /\ Len(NodeSeq[n].kids) <= BOARD_SIZE * BOARD_SIZE
                  /\ Len(NodeSeq[n].sizes) = Len(NodeSeq[n].kids)
                  /\ NodeSeq[n].depth = 0 => NodeSeq[n].kids = <<>>
                  /\ \A i \in DOMAIN NodeSeq[n].sizes :
                        /\ ChildIndex(n, i) \in DOMAIN NodeSeq
                        /\ NodeSeq[ChildIndex(n, i)].depth = NodeSeq[n].depth - 1

\* a negamax search of depth 2 that went down to depth 0, two calls below the
\* one made, through calls with several children
C22_Witness ==
    /\ NodeSeq # <<>>
    /\ player.build = "negamax"
    /\ NodeSeq[1].depth = 2
    /\ Len(NodeSeq[1].kids) >= 2
    /\ \E n \in DOMAIN NodeSeq :
          NodeSeq[n].depth = 1 /\ Len(NodeSeq[n].kids) >= 2
    /\ \E n \in DOMAIN NodeSeq :
          NodeSeq[n].depth = 0 /\ Cardinality(CallersOf(n)) = 2

\* alpha as it runs in a call after its first i children: the greatest of the
\* alpha passed in and the scores had so far
RECURSIVE RunningAlpha(_, _)
RunningAlpha(nd, i) ==
    IF i = 0 THEN nd.alpha
    ELSE LET a == RunningAlpha(nd, i - 1)
         IN  IF nd.vals[i] > a THEN nd.vals[i] ELSE a

\* the children of a call whose score was above the running alpha
Raisers(nd) == {i \in DOMAIN nd.vals : nd.vals[i] > RunningAlpha(nd, i - 1)}

\* C23: a negamax call that is not a base case and has alpha <= beta returns a
\* score s with alpha <= s <= beta; the move it returns is a placement whose
\* negated child score was strictly above the running alpha; and when no child
\* explored was above it the call returns the alpha passed in and no move.
C23_ScoreWithinWindow ==
    player.build = "negamax" =>
        \A nd \in SearchCalls :
            (~IsBaseCase(nd) /\ nd.alpha <= nd.beta) =>
                /\ nd.alpha <= nd.score
                /\ nd.score <= nd.beta
                /\ nd.move # NoMove =>
                      \E i \in Raisers(nd) : nd.seen[i] = nd.move
                /\ Raisers(nd) = {} => nd.score = nd.alpha /\ nd.move = NoMove
                /\ (Raisers(nd) # {} /\ ~nd.cut) =>
                      \E i \in Raisers(nd) :
                          /\ \A j \in Raisers(nd) : j <= i
                          /\ nd.seen[i] = nd.move
                          /\ nd.score = nd.vals[i]

\* one search in which a call with a window of finite ends raised its alpha by
\* one placement and not by another and returned without the cutoff, and a
\* call had children and none above its alpha
C23_Witness ==
    /\ player.build = "negamax"
    /\ \E nd \in SearchCalls :
          /\ ~IsBaseCase(nd)
          /\ ~nd.cut
          /\ nd.alpha > INT_MIN + 1
          /\ nd.beta < INT_MAX
          /\ nd.alpha < nd.score
          /\ nd.score <= nd.beta
          /\ Len(nd.vals) > Cardinality(Raisers(nd))
    /\ \E nd \in SearchCalls :
          /\ ~IsBaseCase(nd)
          /\ nd.alpha <= nd.beta
          /\ nd.vals # <<>>
          /\ Raisers(nd) = {}
          /\ nd.move = NoMove
          /\ nd.score = nd.alpha

\* the classes of squares as the claim describes them
CornerSquares == {<<x, y>> \in Coords \X Coords : x \in {0, 7} /\ y \in {0, 7}}
BoundarySquares == {<<x, y>> \in Coords \X Coords : x \in {0, 7} \/ y \in {0, 7}}
Distance(a, b) == IF a < b THEN b - a ELSE a - b

\* one step diagonally inward from a corner
DiagonalInward ==
    {sq \in Coords \X Coords :
        \E c \in CornerSquares : Distance(sq[1], c[1]) = 1 /\ Distance(sq[2], c[2]) = 1}

\* next to a corner along an edge
AdjacentToCorner ==
    {sq \in BoundarySquares :
        \E c \in CornerSquares : Distance(sq[1], c[1]) + Distance(sq[2], c[2]) = 1}

\* the class of a square by the tests taken in the order CORNER,
\* DIAGONAL_TO_CORNER, NEXT_TO_CORNER, EDGE, OTHER
ClassOf(sq) ==
    IF sq \in CornerSquares THEN CORNER
    ELSE IF sq \in DiagonalInward THEN DIAGONAL_TO_CORNER
    ELSE IF sq \in AdjacentToCorner THEN NEXT_TO_CORNER
    ELSE IF sq \in BoundarySquares THEN EDGE
    ELSE POS_OTHER

\* the squares Board::getSquarePosition gives the class pos
SquaresOfClass(pos) ==
    {sq \in Coords \X Coords : getSquarePosition(sq[1], sq[2]) = pos}

\* what the call returned is the class of the square by the description, and
\* one of the five classes
ReturnsClassOf ==
    /\ last.ret = ClassOf(<<last.x, last.y>>)
    /\ last.ret \in {CORNER, DIAGONAL_TO_CORNER, NEXT_TO_CORNER, EDGE, POS_OTHER}
    /\ Cardinality(SquaresOfClass(CORNER)) = 4
    /\ SquaresOfClass(CORNER) = CornerSquares
    /\ SquaresOfClass(DIAGONAL_TO_CORNER) = DiagonalInward
    /\ SquaresOfClass(NEXT_TO_CORNER) = AdjacentToCorner
    /\ SquaresOfClass(EDGE) = (BoundarySquares \ CornerSquares) \ AdjacentToCorner
    /\ SquaresOfClass(POS_OTHER)
          = ((Coords \X Coords) \ BoundarySquares) \ DiagonalInward

\* C24 as stated: Board::getSquarePosition gives every square of the 8x8 board
\* exactly one class, tested in the order CORNER, DIAGONAL_TO_CORNER,
\* NEXT_TO_CORNER, EDGE, OTHER: the four corners are CORNER, the eight squares
\* one step diagonally inward from a corner are DIAGONAL_TO_CORNER, the squares
\* next to a corner along an edge are NEXT_TO_CORNER, the rest of the boundary
\* is EDGE and all other squares are OTHER.
C24_EightDiagonalSquares ==
    last.op = "Board::getSquarePosition" =>
        /\ ReturnsClassOf
        /\ Cardinality(SquaresOfClass(DIAGONAL_TO_CORNER)) = 8

\* C24 amended: the same, with the squares one step diagonally inward from a
\* corner being four, one for each corner; those next to a corner along an
\* edge are eight.
C24_SquareClasses ==
    last.op = "Board::getSquarePosition" =>
        /\ ReturnsClassOf
        /\ Cardinality(SquaresOfClass(DIAGONAL_TO_CORNER)) = 4
        /\ Cardinality(SquaresOfClass(NEXT_TO_CORNER)) = 8

\* the function called on a square one step diagonally inward from a corner, off
\* the main diagonal
C24_Witness ==
    /\ last.op = "Board::getSquarePosition"
    /\ last.ret = DIAGONAL_TO_CORNER
    /\ last.x # last.y

\* 1 when board->doMove(m, side) on b applies a placement, 0 when it is a pass
\* or an illegal move and the board is left alone
Applied(b, m, side) ==
    IF m # NoMove /\ LegalPlacement(b, getX(m), getY(m), side) THEN 1 ELSE 0

\* the pieces on the Player's board beyond the four of the opening: in a game
\* played from the opening, the placements applied so far
Placements == Cardinality(heap[player.board].taken) - 4

\* what a turn did to the squares taken on the Player's board
TurnGrowth ==
    last.op = "Player::doMove" =>
        LET pb == player.board
            before == last.pre[pb]
            between == last.mid[pb]
            after == heap[pb]
        IN  /\ before.taken \subseteq between.taken
            /\ between.taken \subseteq after.taken
            /\ Cardinality(between.taken)
                  = Cardinality(before.taken)
                      + Applied(before, last.opp, Other(player.side))
            /\ Cardinality(after.taken)
                  = Cardinality(between.taken)
                      + Applied(between, last.ret, player.side)
            /\ Cardinality(after.taken) - Cardinality(before.taken) <= 2

\* C25: in a game played from the opening through Player::doMove, a square once
\* taken stays taken, a turn adds at most two pieces and every placement applied
\* exactly one, so that no more than 60 placements are ever applied, and when 60
\* have been neither side has a move (Board::isDone).
C25_OccupancyGrows ==
    /\ [](/\ TurnGrowth
          /\ Placements \in 0 .. 60
          /\ Placements = 60 => isDone(heap[player.board]))
    /\ [][heap[player.board].taken \subseteq heap'[player'.board].taken]_vars

\* a game in which the 60th placement was applied, by a turn that added two
\* pieces
C25_Witness ==
    /\ last.op = "Player::doMove"
    /\ Placements = 60
    /\ Cardinality(heap[player.board].taken)
          = Cardinality(last.pre[player.board].taken) + 2
    /\ isDone(heap[player.board])

\* the same of Board::doMove called on any board with any move
C25_BoardDoMoveGrowsByOne ==
    last.op = "Board::doMove" =>
        /\ last.pre[last.id].taken \subseteq heap[last.id].taken
        /\ Cardinality(heap[last.id].taken)
              = Cardinality(last.pre[last.id].taken)
                  + Applied(last.pre[last.id], last.m, last.side)
        /\ Cardinality(heap[last.id].taken) = BOARD_SIZE * BOARD_SIZE
              => isDone(heap[last.id])
=============================================================================
